---- MODULE Spec2Model ----
(***************************************************************************)
(* Model of bot/cogs/dm_relay.py: the DMRelay cog.                         *)
(*                                                                         *)
(* The cog runs on one asyncio event loop.  Every coroutine (the init task *)
(* fetch_webhook, each on_message handler, each send_dm command) runs      *)
(* atomically from one `await` to the next; at an `await` any other task   *)
(* may run.  One action of this module is one such atomic piece.           *)
(***************************************************************************)
EXTENDS Naturals, Sequences, FiniteSets

\* ------------------------------------------------------------------ bounds
\* Number of handler tasks (on_message / send_dm) that may be in flight at once.
MaxTasks == 2

\* ------------------------------------------------------------------ values
None == "None"

HumanUsers == {"alice", "bob"}
BotUsers == {"otherbot"}
Authors == HumanUsers \cup BotUsers

\* message.author.bot
IsBot(author) == author \in BotUsers
\* message.author.display_name / message.author.avatar_url
DisplayName(author) == <<"display_name", author>>
AvatarUrl(author) == <<"avatar_url", author>>

\* message.guild: None for a direct message
Guilds == {None, "guild"}
\* message.clean_content
Contents == {"", "hello"}
\* message.attachments: a list
AttachmentLists == {<<>>, <<"cat.png">>}
\* the `message` argument of send_dm
Bodies == {"wrong bot", "thanks"}

\* constants.Webhooks.dm_log and the object fetched for it
WebhookId == "dm_log"
WebhookObj == <<"Webhook", WebhookId>>
NoWebhook == <<>>

\* discord exception classes; Forbidden and NotFound derive from HTTPException
Exceptions == {"HTTPException", "Forbidden", "NotFound"}
Outcomes == {"ok"} \cup Exceptions
\* how `await user.send(...)` ends: send_dm catches nothing, so the class of
\* the error makes no difference to it
SendOutcomes == {"ok", "HTTPException"}
\* how `await self.bot.fetch_webhook(...)` ends
FetchOutcomes == Outcomes
\* how `await send_attachments(...)` ends: it may raise access-denied,
\* not-found or another transport error
AttachmentsOutcomes == Outcomes
\* how `await send_webhook(...)` ends: the helper returns to its caller
SendWebhookOutcomes == {"ok"}
\* how `await ctx.message.add_reaction(...)` ends
AddReactionOutcomes == {"ok"}
IsInstance(exc, cls) ==
    \/ exc = cls
    \/ cls = "HTTPException" /\ exc \in {"Forbidden", "NotFound"}

Tasks == 1..MaxTasks

\* the inbound events the gateway delivers
AllMessages ==
    [kind : {"message"}, author : Authors, guild : Guilds,
     clean_content : Contents, attachments : AttachmentLists]
\* Every direct message of a human; of the messages of bots and of guild messages,
\* those that carry both text and an attachment.
Messages ==
    {m \in AllMessages :
        (IsBot(m.author) \/ m.guild # None) =>
            (m.clean_content # "" /\ m.attachments # <<>> /\ m.author # "bob")}

\* roles of the member invoking a command
ModerationRoles == {"moderators", "admins", "owners"}
InvokerRoles == {{"helpers"}, {"helpers", "admins"}}
Commands ==
    [kind : {"command"}, roles : InvokerRoles,
     member : HumanUsers \cup {None}, message : Bodies]

NoEvent == [kind |-> "none"]

VARIABLES
    webhook,        \* self.webhook
    last_dm_user,   \* self.last_dm_user
    initPc,         \* position of the task created in __init__
    fetches,        \* calls of bot.fetch_webhook issued so far
    fetchResults,   \* how each of them ended ("ok" or the exception raised)
    initLog,        \* what fetch_webhook logged
    pc,             \* pc[t]: position of handler task t
    arg,            \* arg[t]: the message / command context task t handles
    posted,         \* posted[t]: webhook posts issued by task t, in order
    forwards,       \* forwards[t]: send_attachments calls issued by task t
    sent,           \* sent[t]: direct messages task t asked to send
    reactions,      \* reactions[t]: reactions added to the invoking message
    logs,           \* logs[t]: what task t logged
    results         \* results[t]: <<call, outcome>> of each await task t resumed from

vars == <<webhook, last_dm_user, initPc, fetches, fetchResults, initLog,
          pc, arg, posted, forwards, sent, reactions, logs, results>>
initVars == <<webhook, initPc, fetches, fetchResults, initLog>>
taskLogs == <<posted, forwards, sent, reactions, logs>>

\* reaction emoji: the white-check-mark and the cross-mark
CheckMark == "white_check_mark"
CrossMark == "x"

\* ------------------------------------------------------------------ __init__
\* self.webhook = None; create_task(self.fetch_webhook()); self.last_dm_user = None
Init ==
    /\ webhook = NoWebhook
    /\ last_dm_user = None
    /\ initPc = "wait_guild"
    /\ fetches = 0
    /\ fetchResults = <<>>
    /\ initLog = <<>>
    /\ pc = [t \in Tasks |-> "idle"]
    /\ arg = [t \in Tasks |-> NoEvent]
    /\ posted = [t \in Tasks |-> <<>>]
    /\ forwards = [t \in Tasks |-> <<>>]
    /\ sent = [t \in Tasks |-> <<>>]
    /\ reactions = [t \in Tasks |-> <<>>]
    /\ logs = [t \in Tasks |-> <<>>]
    /\ results = [t \in Tasks |-> <<>>]

\* ------------------------------------------------------------------ fetch_webhook
\* `await self.bot.wait_until_guild_available()` returns; the fetch is issued.
GuildAvailable ==
    /\ initPc = "wait_guild"
    /\ initPc' = "fetching"
    /\ fetches' = fetches + 1
    /\ UNCHANGED <<webhook, fetchResults, initLog, last_dm_user, pc, arg, taskLogs, results>>

\* faulty variant: the handler catches NotFound alone
FetchCatchesNotFoundOnly(exc) == IsInstance(exc, "NotFound")

\* `except discord.HTTPException:` around the fetch
FetchCatches(exc) == IsInstance(exc, "HTTPException")

\* `await self.bot.fetch_webhook(self.webhook_id)` returns or raises.
FetchReturn ==
    /\ initPc = "fetching"
    /\ \E outcome \in FetchOutcomes :
        /\ fetchResults' = Append(fetchResults, outcome)
        /\ IF outcome = "ok"
           THEN /\ webhook' = WebhookObj
                /\ initPc' = "done"
                /\ UNCHANGED initLog
           ELSE /\ UNCHANGED webhook
                /\ IF FetchCatches(outcome)
                   THEN /\ initLog' = <<"Failed to fetch webhook with id", WebhookId>>
                        /\ initPc' = "done"
                   ELSE /\ initPc' = "raised"
                        /\ UNCHANGED initLog
    /\ UNCHANGED <<fetches, last_dm_user, pc, arg, taskLogs, results>>

\* ------------------------------------------------------------------ on_message
\* A new handler task takes the first free slot.
FreeSlot(t) == pc[t] = "idle" /\ \A u \in Tasks : u < t => pc[u] # "idle"

\* faulty variant: the filter forgets `self.webhook is None`
FilteredIgnoresWebhook(message, wh) == IsBot(message.author) \/ message.guild # None

\* faulty variant: the filter forgets `message.author.bot`
FilteredIgnoresBot(message, wh) == message.guild # None \/ wh = NoWebhook

\* `if message.author.bot or message.guild or self.webhook is None: return`
Filtered(message, wh) ==
    IsBot(message.author) \/ message.guild # None \/ wh = NoWebhook

\* send_webhook(webhook=, content=, username=, avatar_url=)
TextPost(message, wh) ==
    [kind |-> "text", webhook |-> wh, content |-> message.clean_content,
     embed |-> <<>>, username |-> DisplayName(message.author),
     avatar_url |-> AvatarUrl(message.author)]

\* discord.Embed(description=..., color=Color.red())
ErrorEmbed ==
    <<":x: **This message contained an attachment, but it could not be retrieved**",
      "red">>

\* send_webhook(webhook=, embed=e, username=, avatar_url=)
PlaceholderPost(message, wh) ==
    [kind |-> "placeholder", webhook |-> wh, content |-> "",
     embed |-> ErrorEmbed, username |-> DisplayName(message.author),
     avatar_url |-> AvatarUrl(message.author)]

\* what send_attachments(message, webhook) posts when it succeeds
AttachmentPost(message, wh) ==
    [kind |-> "attachments", webhook |-> wh, content |-> "",
     embed |-> <<>>, username |-> DisplayName(message.author),
     avatar_url |-> AvatarUrl(message.author)]

\* faulty variant: the text is tested for None, not for emptiness
HasTextAlways(message) == TRUE

\* `if clean_content:`
HasText(message) == message.clean_content # ""
\* faulty variant: the list is tested for None, not for emptiness
HasAttachmentsAlways(message) == TRUE

\* `if message.attachments:`
HasAttachments(message) == Len(message.attachments) > 0

\* faulty variant: a sender once recorded is kept
RecordSenderFirstWins(message, last) == IF last = None THEN message.author ELSE last

\* faulty variant: the assignment is missing
RecordSenderKeepsOld(message, last) == last

\* `self.last_dm_user = message.author` after the text post
RecordSender(message, last) == message.author

\* faulty variant: the first handler names Forbidden alone
CatchesForbiddenOnly(exc) == IsInstance(exc, "Forbidden")

\* `except (discord.errors.Forbidden, discord.errors.NotFound):`
CatchesForbiddenNotFound(exc) ==
    IsInstance(exc, "Forbidden") \/ IsInstance(exc, "NotFound")
\* faulty variant: the second handler is missing
CatchesNothing(exc) == FALSE

\* `except discord.HTTPException:`
CatchesHTTPException(exc) == IsInstance(exc, "HTTPException")

\* "# Handle any attachments": up to `await send_attachments(...)`
BeginAttachments(t, message) ==
    IF HasAttachments(message)
    THEN /\ forwards' = [forwards EXCEPT ![t] = Append(@, webhook)]
         /\ pc' = [pc EXCEPT ![t] = "await_attachments"]
    ELSE /\ pc' = [pc EXCEPT ![t] = "done"]
         /\ UNCHANGED forwards

\* The listener is called with a message: from the filter to the first await.
OnMessage(t) ==
    /\ FreeSlot(t)
    /\ \E message \in Messages :
        /\ arg' = [arg EXCEPT ![t] = message]
        /\ IF Filtered(message, webhook)
           THEN /\ pc' = [pc EXCEPT ![t] = "done"]
                /\ UNCHANGED <<posted, forwards>>
           ELSE IF HasText(message)
           THEN /\ posted' = [posted EXCEPT ![t] = Append(@, TextPost(message, webhook))]
                /\ pc' = [pc EXCEPT ![t] = "await_text"]
                /\ UNCHANGED forwards
           ELSE /\ BeginAttachments(t, message)
                /\ UNCHANGED posted
    /\ UNCHANGED <<initVars, last_dm_user, sent, reactions, logs, results>>

\* The text post returns: the sender is recorded, then the attachments part.
TextPostReturn(t) ==
    /\ pc[t] = "await_text"
    /\ last_dm_user' = RecordSender(arg[t], last_dm_user)
    /\ BeginAttachments(t, arg[t])
    /\ \E outcome \in SendWebhookOutcomes :
        results' = [results EXCEPT ![t] = Append(@, <<"send_webhook", outcome>>)]
    /\ UNCHANGED <<initVars, arg, posted, sent, reactions, logs>>

\* send_attachments returns or raises.
AttachmentsReturn(t) ==
    /\ pc[t] = "await_attachments"
    /\ \E outcome \in AttachmentsOutcomes :
        /\ results' = [results EXCEPT ![t] = Append(@, <<"send_attachments", outcome>>)]
        /\ IF outcome = "ok"
           THEN /\ posted' = [posted EXCEPT
                      ![t] = Append(@, AttachmentPost(arg[t], forwards[t][Len(forwards[t])]))]
                /\ pc' = [pc EXCEPT ![t] = "done"]
                /\ UNCHANGED logs
           ELSE IF CatchesForbiddenNotFound(outcome)
           THEN /\ posted' = [posted EXCEPT
                      ![t] = Append(@, PlaceholderPost(arg[t], webhook))]
                /\ pc' = [pc EXCEPT ![t] = "await_placeholder"]
                /\ UNCHANGED logs
           ELSE IF CatchesHTTPException(outcome)
           THEN /\ logs' = [logs EXCEPT
                      ![t] = Append(@, "Failed to send an attachment to the webhook")]
                /\ pc' = [pc EXCEPT ![t] = "done"]
                /\ UNCHANGED posted
           ELSE /\ pc' = [pc EXCEPT ![t] = "raised"]
                /\ UNCHANGED <<posted, logs>>
    /\ UNCHANGED <<initVars, last_dm_user, arg, forwards, sent, reactions>>

\* The placeholder post returns: the handler is finished.
PlaceholderReturn(t) ==
    /\ pc[t] = "await_placeholder"
    /\ pc' = [pc EXCEPT ![t] = "done"]
    /\ \E outcome \in SendWebhookOutcomes :
        results' = [results EXCEPT ![t] = Append(@, <<"send_webhook", outcome>>)]
    /\ UNCHANGED <<initVars, last_dm_user, arg, taskLogs>>

\* ------------------------------------------------------------------ send_dm
\* with_role_check(ctx, *roles): the invoker holds one of the roles
WithRoleCheck(ctx, roles) == ctx.roles \cap roles # {}

\* faulty variant: any role passes
CogCheckAnyRole(ctx) == ctx.roles # {}

\* cog_check: `return with_role_check(ctx, *MODERATION_ROLES)`
CogCheck(ctx) == WithRoleCheck(ctx, ModerationRoles)

\* faulty variant: the recorded sender is tried before the explicit member
ResolveTargetLastFirst(member, last) ==
    IF last # None THEN last
    ELSE IF member # None THEN member
    ELSE None

\* faulty variant: the fallback to the recorded sender is missing
ResolveTargetNoFallback(member, last) ==
    IF member # None THEN member ELSE None

\* `if member: ... elif self.last_dm_user: ... else:` -- whom the DM goes to
ResolveTarget(member, last) ==
    IF member # None THEN member
    ELSE IF last # None THEN last
    ELSE None

\* faulty variant: the reaction is added whether or not the send raised
ReactAlways(outcome) == <<CheckMark>>

\* `await ctx.message.add_reaction(CheckMark)` follows a send that returned
ReactAfterSend(outcome) == IF outcome = "ok" THEN <<CheckMark>> ELSE <<>>

\* faulty variant: the else branch adds the success mark
FailureReactionCheckMark == <<CheckMark>>

\* `await ctx.message.add_reaction(CrossMark)` of the else branch
FailureReaction == <<CrossMark>>

\* The command is invoked: the cog check, then the body up to its first await.
SendDm(t) ==
    /\ FreeSlot(t)
    /\ \E ctx \in Commands :
        /\ arg' = [arg EXCEPT ![t] = ctx]
        /\ IF ~CogCheck(ctx)
           THEN /\ pc' = [pc EXCEPT ![t] = "rejected"]
                /\ UNCHANGED <<sent, reactions, logs>>
           ELSE LET target == ResolveTarget(ctx.member, last_dm_user) IN
                IF target # None
                THEN /\ sent' = [sent EXCEPT
                          ![t] = Append(@, [to |-> target, content |-> ctx.message])]
                     /\ pc' = [pc EXCEPT ![t] = "await_send"]
                     /\ UNCHANGED <<reactions, logs>>
                ELSE /\ logs' = [logs EXCEPT
                          ![t] = Append(@, "Unable to send a DM to the user.")]
                     /\ reactions' = [reactions EXCEPT ![t] = @ \o FailureReaction]
                     /\ pc' = [pc EXCEPT ![t] = "await_reaction"]
                     /\ UNCHANGED sent
    /\ UNCHANGED <<initVars, last_dm_user, posted, forwards, results>>

\* faulty variant: a delivered reply makes its recipient the recorded sender
SendReturnRecordsTarget(t) ==
    /\ pc[t] = "await_send"
    /\ \E outcome \in SendOutcomes :
        /\ results' = [results EXCEPT ![t] = Append(@, <<"send", outcome>>)]
        /\ reactions' = [reactions EXCEPT ![t] = @ \o ReactAfterSend(outcome)]
        /\ pc' = [pc EXCEPT ![t] = IF outcome = "ok" THEN "await_reaction" ELSE "raised"]
        /\ last_dm_user' = IF outcome = "ok" THEN sent[t][1].to ELSE last_dm_user
    /\ UNCHANGED <<initVars, arg, posted, forwards, sent, logs>>

\* `await member.send(message)` / `await self.last_dm_user.send(message)` returns
\* or raises; nothing in send_dm catches.
SendReturn(t) ==
    /\ pc[t] = "await_send"
    /\ \E outcome \in SendOutcomes :
        /\ results' = [results EXCEPT ![t] = Append(@, <<"send", outcome>>)]
        /\ reactions' = [reactions EXCEPT ![t] = @ \o ReactAfterSend(outcome)]
        /\ pc' = [pc EXCEPT ![t] = IF outcome = "ok" THEN "await_reaction" ELSE "raised"]
    /\ UNCHANGED <<initVars, last_dm_user, arg, posted, forwards, sent, logs>>

\* add_reaction returns: the command is finished.
ReactionReturn(t) ==
    /\ pc[t] = "await_reaction"
    /\ pc' = [pc EXCEPT ![t] = "done"]
    /\ \E outcome \in AddReactionOutcomes :
        results' = [results EXCEPT ![t] = Append(@, <<"add_reaction", outcome>>)]
    /\ UNCHANGED <<initVars, last_dm_user, arg, taskLogs>>

\* ------------------------------------------------------------------ event loop
\* A finished task is dropped by the event loop; its slot is free again.
Finished(t) == pc[t] \in {"done", "raised", "rejected"}

Retire(t) ==
    /\ Finished(t)
    /\ pc' = [pc EXCEPT ![t] = "idle"]
    /\ arg' = [arg EXCEPT ![t] = NoEvent]
    /\ posted' = [posted EXCEPT ![t] = <<>>]
    /\ forwards' = [forwards EXCEPT ![t] = <<>>]
    /\ sent' = [sent EXCEPT ![t] = <<>>]
    /\ reactions' = [reactions EXCEPT ![t] = <<>>]
    /\ logs' = [logs EXCEPT ![t] = <<>>]
    /\ results' = [results EXCEPT ![t] = <<>>]
    /\ UNCHANGED <<initVars, last_dm_user>>

Next ==
    \/ GuildAvailable
    \/ FetchReturn
    \/ \E t \in Tasks :
        \/ OnMessage(t)
        \/ TextPostReturn(t)
        \/ AttachmentsReturn(t)
        \/ PlaceholderReturn(t)
        \/ SendDm(t)
        \/ SendReturn(t)
        \/ ReactionReturn(t)
        \/ Retire(t)

Spec == Init /\ [][Next]_vars

\* The same tasks with the slots taken in arrival order: a task starts only
\* while every higher slot is free, so of two tasks in flight the one in the
\* lower slot was received first.
InArrivalOrder(t) == \A u \in Tasks : u > t => pc[u] = "idle"

NextArrival ==
    \/ GuildAvailable
    \/ FetchReturn
    \/ \E t \in Tasks :
        \/ OnMessage(t) /\ InArrivalOrder(t)
        \/ TextPostReturn(t)
        \/ AttachmentsReturn(t)
        \/ PlaceholderReturn(t)
        \/ SendDm(t) /\ InArrivalOrder(t)
        \/ SendReturn(t)
        \/ ReactionReturn(t)
        \/ Retire(t)

SpecArrival == Init /\ [][NextArrival]_vars

\* ------------------------------------------------------------------ properties
IsMessageTask(t) == pc[t] # "idle" /\ arg[t].kind = "message"
IsCommandTask(t) == pc[t] # "idle" /\ arg[t].kind = "command"
\* the invoker holds one of the configured moderation roles
Authorized(ctx) == \E r \in ctx.roles : r \in {"moderators", "admins", "owners"}
\* the posts of one kind among a task's posts
PostsOfKind(t, k) == SelectSeq(posted[t], LAMBDA p : p.kind = k)
\* the outcomes of a task's awaits of one call
OutcomesOf(t, call) == {results[t][i][2] : i \in {j \in DOMAIN results[t] : results[t][j][1] = call}}

\* C1: a message whose author is a bot, or that comes from a guild, or that is
\* handled while no webhook is held, makes the handler return at once: no
\* webhook post or attachment forward is issued for it (then or later) and
\* last_dm_user keeps its value.
C1_FilteredMessageNotRelayed ==
    [][\A t \in Tasks :
        /\ ( /\ pc[t] = "idle" /\ pc'[t] # "idle" /\ arg'[t].kind = "message"
             /\ \/ arg'[t].author \in BotUsers
                \/ arg'[t].guild # None
                \/ webhook = NoWebhook )
           => /\ pc'[t] = "done"
              /\ posted' = posted /\ forwards' = forwards
              /\ last_dm_user' = last_dm_user
        /\ (pc[t] = "done" /\ pc'[t] # "idle")
           => (posted'[t] = posted[t] /\ forwards'[t] = forwards[t])
      ]_vars

\* C1 witness: with the webhook held and a sender recorded, a bot's direct
\* message with text and an attachment has been handled and nothing was posted.
C1_Witness ==
    \E t \in Tasks :
        /\ IsMessageTask(t) /\ pc[t] = "done"
        /\ arg[t].author \in BotUsers /\ arg[t].guild = None
        /\ webhook # NoWebhook /\ last_dm_user # None
        /\ posted[t] = <<>> /\ forwards[t] = <<>>

\* C2: a human's direct message with non-empty text, handled while the webhook
\* is held, gets exactly one text post, carrying the text under the sender's
\* display name and avatar; when that post returns, last_dm_user is the author.
C2_TextRelayedOnce ==
    [][\A t \in Tasks :
        /\ ( /\ pc[t] = "idle" /\ pc'[t] # "idle" /\ arg'[t].kind = "message"
             /\ arg'[t].author \notin BotUsers /\ arg'[t].guild = None
             /\ webhook # NoWebhook /\ arg'[t].clean_content # "" )
           => /\ pc'[t] = "await_text"
              /\ posted'[t] = << [kind |-> "text", webhook |-> webhook,
                                  content |-> arg'[t].clean_content, embed |-> <<>>,
                                  username |-> <<"display_name", arg'[t].author>>,
                                  avatar_url |-> <<"avatar_url", arg'[t].author>>] >>
        /\ (pc[t] = "await_text" /\ pc'[t] # "await_text")
           => last_dm_user' = arg[t].author
        /\ (pc[t] # "idle" /\ pc'[t] # "idle")
           => PostsOfKind(t, "text")' = PostsOfKind(t, "text")
      ]_vars

\* C2 witness: a direct message from alice with text has been relayed: one text
\* post carrying the text, and alice is the recorded sender.
C2_Witness ==
    \E t \in Tasks :
        /\ IsMessageTask(t) /\ pc[t] = "done"
        /\ arg[t].author = "alice" /\ arg[t].clean_content = "hello"
        /\ Len(PostsOfKind(t, "text")) = 1
        /\ posted[t][1].content = "hello"
        /\ last_dm_user = "alice"

\* C3: when the forwarding of a relayed message's attachments fails with
\* Forbidden or NotFound, exactly one placeholder post (the red notice) is
\* issued under the sender's name and avatar, no attachment post is made, and
\* the handler finishes without raising.
C3_PlaceholderOnForbiddenNotFound ==
    \A t \in Tasks :
        (IsMessageTask(t) /\ OutcomesOf(t, "send_attachments") \cap {"Forbidden", "NotFound"} # {})
        => /\ PostsOfKind(t, "placeholder")
                = << [kind |-> "placeholder", webhook |-> webhook, content |-> "",
                      embed |-> <<":x: **This message contained an attachment, but it could not be retrieved**", "red">>,
                      username |-> <<"display_name", arg[t].author>>,
                      avatar_url |-> <<"avatar_url", arg[t].author>>] >>
           /\ PostsOfKind(t, "attachments") = <<>>
           /\ Len(forwards[t]) = 1
           /\ pc[t] \in {"await_placeholder", "done"}

\* C3 witness: a handler has finished after a NotFound from the forwarding and
\* its last post is the placeholder.
C3_Witness ==
    \E t \in Tasks :
        /\ IsMessageTask(t) /\ pc[t] = "done"
        /\ "NotFound" \in OutcomesOf(t, "send_attachments")
        /\ posted[t] # <<>> /\ posted[t][Len(posted[t])].kind = "placeholder"

\* C4: an authorized send_dm with an explicit member sends the direct message
\* to that member and to nobody else, whatever last_dm_user is or becomes.
C4_ExplicitTargetWins ==
    \A t \in Tasks :
        (IsCommandTask(t) /\ Authorized(arg[t]) /\ arg[t].member # None)
        => sent[t] = << [to |-> arg[t].member, content |-> arg[t].message] >>

\* C4 witness: a reply to alice is delivered while bob is the recorded sender.
C4_Witness ==
    \E t \in Tasks :
        /\ IsCommandTask(t) /\ pc[t] = "done"
        /\ arg[t].member = "alice" /\ last_dm_user = "bob"
        /\ sent[t] # <<>> /\ sent[t][1].to = "alice"

\* C5: an authorized send_dm without a member, run while last_dm_user holds a
\* user, issues exactly one direct message: to that user, with the given body.
C5_FallbackToLastSender ==
    [][\A t \in Tasks :
        /\ ( /\ pc[t] = "idle" /\ pc'[t] # "idle" /\ arg'[t].kind = "command"
             /\ Authorized(arg'[t]) /\ arg'[t].member = None
             /\ last_dm_user # None )
           => /\ pc'[t] = "await_send"
              /\ sent'[t] = << [to |-> last_dm_user, content |-> arg'[t].message] >>
        /\ (pc[t] # "idle" /\ pc'[t] # "idle") => sent'[t] = sent[t]
      ]_vars

\* C5 witness: a reply without a member went to alice, the sender recorded when
\* the command ran, although bob has been recorded since.
C5_Witness ==
    \E t \in Tasks :
        /\ IsCommandTask(t) /\ pc[t] = "done" /\ arg[t].member = None
        /\ sent[t] = << [to |-> "alice", content |-> arg[t].message] >>
        /\ reactions[t] = <<CheckMark>>
        /\ last_dm_user = "bob"

\* C6: an authorized send_dm without a member, run while last_dm_user is unset,
\* sends no direct message, adds the cross mark and never the check mark, and
\* finishes without raising.
C6_NoTargetCrossMark ==
    [][\A t \in Tasks :
        /\ ( /\ pc[t] = "idle" /\ pc'[t] # "idle" /\ arg'[t].kind = "command"
             /\ Authorized(arg'[t]) /\ arg'[t].member = None
             /\ last_dm_user = None )
           => /\ pc'[t] = "await_reaction"
              /\ sent'[t] = <<>>
              /\ reactions'[t] = <<CrossMark>>
        /\ ( /\ IsCommandTask(t) /\ Authorized(arg[t]) /\ arg[t].member = None
             /\ sent[t] = <<>> /\ pc'[t] # "idle" )
           => /\ pc'[t] \in {"await_reaction", "done"}
              /\ sent'[t] = <<>>
              /\ reactions'[t] = <<CrossMark>>
      ]_vars

\* C6 witness: such a command has finished, with the webhook held.
C6_Witness ==
    \E t \in Tasks :
        /\ IsCommandTask(t) /\ pc[t] = "done" /\ arg[t].member = None
        /\ Authorized(arg[t])
        /\ sent[t] = <<>> /\ reactions[t] = <<CrossMark>>
        /\ last_dm_user = None /\ webhook # NoWebhook

\* C7: a send_dm invoked by a member holding no moderation role sends no
\* direct message, adds no reaction, issues no webhook post, and leaves
\* last_dm_user and the webhook as they were.
C7_UnauthorizedNoEffect ==
    [][\A t \in Tasks :
        /\ ( /\ pc[t] = "idle" /\ pc'[t] # "idle" /\ arg'[t].kind = "command"
             /\ ~Authorized(arg'[t]) )
           => /\ pc'[t] = "rejected"
              /\ sent' = sent /\ reactions' = reactions
              /\ posted' = posted /\ forwards' = forwards
              /\ last_dm_user' = last_dm_user /\ webhook' = webhook
        /\ (pc[t] = "rejected" /\ pc'[t] # "idle")
           => /\ pc'[t] = "rejected"
              /\ sent'[t] = <<>> /\ reactions'[t] = <<>>
              /\ posted'[t] = <<>> /\ forwards'[t] = <<>>
      ]_vars

\* C7 witness: a reply naming bob, by a helper, was rejected while alice was
\* the recorded sender and the webhook was held.
C7_Witness ==
    \E t \in Tasks :
        /\ IsCommandTask(t) /\ pc[t] = "rejected"
        /\ arg[t].roles = {"helpers"} /\ arg[t].member = "bob"
        /\ last_dm_user = "alice" /\ webhook # NoWebhook
        /\ sent[t] = <<>> /\ reactions[t] = <<>>

\* the one fetch of the webhook raised
FetchFailed == fetchResults # <<>> /\ fetchResults[1] # "ok"

\* C8: once the startup fetch has failed, the init task has ended normally, no
\* other fetch is ever issued and the webhook stays absent; no message is
\* relayed, last_dm_user stays unset, and every authorized reply without a
\* member ends with the cross mark and no send.
C8_FetchFailureDegrades ==
    FetchFailed =>
        /\ initPc = "done"
        /\ fetches = 1 /\ Len(fetchResults) = 1
        /\ webhook = NoWebhook
        /\ last_dm_user = None
        /\ \A t \in Tasks :
            /\ posted[t] = <<>> /\ forwards[t] = <<>>
            /\ IsMessageTask(t) => pc[t] = "done"
            /\ (IsCommandTask(t) /\ Authorized(arg[t]) /\ arg[t].member = None)
               => /\ sent[t] = <<>>
                  /\ reactions[t] = <<CrossMark>>
                  /\ pc[t] \in {"await_reaction", "done"}

\* C8 witness: after a failed fetch a human's direct message with text and an
\* attachment was dropped and a reply without a member got the cross mark.
C8_Witness ==
    /\ FetchFailed
    /\ \E t \in Tasks :
        /\ IsMessageTask(t) /\ pc[t] = "done"
        /\ arg[t].author = "alice" /\ arg[t].guild = None
        /\ arg[t].clean_content # "" /\ arg[t].attachments # <<>>
    /\ \E t \in Tasks :
        /\ IsCommandTask(t) /\ pc[t] = "done" /\ arg[t].member = None
        /\ reactions[t] = <<CrossMark>>

\* C9 (as claimed): when a handler finishes having relayed something of its
\* message to the webhook (text, attachments, or both), last_dm_user is the
\* message's author.
C9_SenderRecordedOnEveryRelay ==
    [][\A t \in Tasks :
        ( /\ IsMessageTask(t) /\ pc[t] # "done" /\ pc'[t] = "done"
          /\ posted'[t] # <<>> )
        => last_dm_user' = arg[t].author
      ]_vars

\* C10: the check mark is added only after the send has returned; a send that
\* raises ends the command with the error, without any reaction and without a
\* second send; no invocation gets both marks.
C10_CheckMarkOnlyAfterSend ==
    \A t \in Tasks :
        IsCommandTask(t) =>
            /\ (\E i \in DOMAIN reactions[t] : reactions[t][i] = CheckMark)
               => (results[t] # <<>> /\ results[t][1] = <<"send", "ok">>)
            /\ (OutcomesOf(t, "send") \cap Exceptions # {})
               => (pc[t] = "raised" /\ reactions[t] = <<>> /\ Len(sent[t]) = 1)
            /\ ~ ( /\ \E i \in DOMAIN reactions[t] : reactions[t][i] = CheckMark
                   /\ \E i \in DOMAIN reactions[t] : reactions[t][i] = CrossMark )
            /\ Len(sent[t]) <= 1
            /\ Len(reactions[t]) <= 1

\* C10 witness: a reply to a named member failed with HTTPException: the command
\* has raised, one send was issued and the invoking message has no reaction.
C10_Witness ==
    \E t \in Tasks :
        /\ IsCommandTask(t) /\ pc[t] = "raised"
        /\ arg[t].member = "bob"
        /\ results[t] = << <<"send", "HTTPException">> >>
        /\ Len(sent[t]) = 1 /\ reactions[t] = <<>>


\* C11: when the forwarding of a relayed message's attachments fails with an
\* HTTPException that is neither Forbidden nor NotFound, the handler logs the
\* failure and finishes without raising: no placeholder post, no second
\* forwarding, and last_dm_user is left as it was.
C11_OtherTransportErrorLogged ==
    [][\A t \in Tasks :
        /\ ( /\ pc[t] = "await_attachments" /\ pc'[t] # "await_attachments"
             /\ results'[t][Len(results'[t])] = <<"send_attachments", "HTTPException">> )
           => /\ pc'[t] = "done"
              /\ logs'[t] = <<"Failed to send an attachment to the webhook">>
              /\ posted'[t] = posted[t]
              /\ forwards'[t] = forwards[t]
              /\ last_dm_user' = last_dm_user
        /\ ( /\ pc[t] = "done" /\ pc'[t] = "done" /\ arg[t].kind = "message"
             /\ "HTTPException" \in OutcomesOf(t, "send_attachments") )
           => /\ PostsOfKind(t, "placeholder")' = <<>>
              /\ Len(forwards'[t]) = 1
      ]_vars

\* C11 witness: a message from bob with text and an attachment was handled, the
\* forwarding raised HTTPException, the handler is done with the text post alone
\* and bob is still the recorded sender.
C11_Witness ==
    \E t \in Tasks :
        /\ IsMessageTask(t) /\ pc[t] = "done"
        /\ arg[t].author = "bob" /\ arg[t].clean_content # ""
        /\ results[t] = << <<"send_webhook", "ok">>, <<"send_attachments", "HTTPException">> >>
        /\ Len(posted[t]) = 1 /\ posted[t][1].kind = "text"
        /\ logs[t] # <<>>
        /\ last_dm_user = "bob"


\* C12: last_dm_user is written when a handler resumes from its text post, with
\* that handler's author, and by nothing else: after any interleaving it is the
\* author whose text post completed last.  (The witness is the interleaving in
\* which the message received second completes first.)
C12_LastCompletedTextPostWins ==
    [][ /\ \A t \in Tasks :
            (pc[t] = "await_text" /\ pc'[t] # "await_text")
            => last_dm_user' = arg[t].author
        /\ last_dm_user' # last_dm_user
           => \E t \in Tasks :
                /\ pc[t] = "await_text" /\ pc'[t] # "await_text"
                /\ last_dm_user' = arg[t].author
      ]_vars

\* C12 witness: alice's text message (slot 1, received first) and bob's (slot 2,
\* received second) have both been relayed and alice is the recorded sender:
\* bob's post completed before alice's.
C12_Witness ==
    /\ pc[1] = "done" /\ arg[1].kind = "message"
    /\ arg[1].author = "alice" /\ arg[1].clean_content # "" /\ arg[1].attachments = <<>>
    /\ Len(posted[1]) = 1 /\ results[1] = << <<"send_webhook", "ok">> >>
    /\ pc[2] = "done" /\ arg[2].kind = "message"
    /\ arg[2].author = "bob" /\ arg[2].clean_content # "" /\ arg[2].attachments = <<>>
    /\ Len(posted[2]) = 1 /\ results[2] = << <<"send_webhook", "ok">> >>
    /\ last_dm_user = "alice"


\* C13: the fetch is issued only once the wait for the guild has returned, and
\* at most once; the webhook is held only after that fetch has succeeded; a
\* message handled while it is not held is dropped: its handler is done at
\* once, and nothing is posted for it then or later.
C13_FetchOnceAfterGuildAvailable ==
    /\ initPc = "wait_guild" => (fetches = 0 /\ fetchResults = <<>>)
    /\ fetches <= 1 /\ Len(fetchResults) <= fetches
    /\ webhook # NoWebhook => fetchResults = <<"ok">>
    /\ webhook = NoWebhook
       => \A t \in Tasks :
            IsMessageTask(t)
            => (pc[t] = "done" /\ results[t] = <<>>
                /\ posted[t] = <<>> /\ forwards[t] = <<>>)
    /\ \A t \in Tasks :
        (IsMessageTask(t) /\ pc[t] = "done" /\ results[t] = <<>>)
        => (posted[t] = <<>> /\ forwards[t] = <<>>)

\* C13 witness: alice's direct message with text was handled before the fetch
\* succeeded; the webhook is held now and still nothing is posted for it.
C13_Witness ==
    /\ webhook # NoWebhook
    /\ \E t \in Tasks :
        /\ IsMessageTask(t) /\ pc[t] = "done"
        /\ arg[t].author = "alice" /\ arg[t].guild = None /\ arg[t].clean_content # ""
        /\ results[t] = <<>> /\ posted[t] = <<>>


\* a relayed message with text and attachments whose forwarding is under way
\* or has failed
ForwardingOrFailed(t) ==
    /\ IsMessageTask(t)
    /\ arg[t].clean_content # "" /\ arg[t].attachments # <<>>
    /\ \/ pc[t] = "await_attachments"
       \/ OutcomesOf(t, "send_attachments") \cap Exceptions # {}

\* an authorized send_dm without a member starts in slot c
ReplyWithoutMemberStarts(c) ==
    /\ pc[c] = "idle" /\ pc'[c] # "idle" /\ arg'[c].kind = "command"
    /\ Authorized(arg'[c]) /\ arg'[c].member = None

\* the forwarding of task t's attachments starts
ForwardingStarts(t) == Len(forwards'[t]) > Len(forwards[t])

\* C14 (as claimed): for a message with text and attachments the text post has
\* completed and last_dm_user is the author when the forwarding starts; a reply
\* without a member that runs during the forwarding, or after it failed, goes
\* to that author.
C14_ReplyDuringForwardingGoesToAuthor ==
    [][\A t \in Tasks :
        /\ (ForwardingStarts(t) /\ arg'[t].clean_content # "")
           => /\ results'[t] = << <<"send_webhook", "ok">> >>
              /\ last_dm_user' = arg'[t].author
        /\ \A c \in Tasks :
            (ForwardingOrFailed(t) /\ ReplyWithoutMemberStarts(c))
            => sent'[c] = << [to |-> arg[t].author, content |-> arg'[c].message] >>
      ]_vars

\* C14 (amended): the same order of text post, assignment and forwarding; the
\* reply goes to that author as long as last_dm_user still names the author,
\* and last_dm_user is changed only by a handler resuming from its text post.
C14_ReplyDuringForwardingGoesToRecorded ==
    [][ /\ \A t \in Tasks :
            /\ (ForwardingStarts(t) /\ arg'[t].clean_content # "")
               => /\ pc[t] = "await_text"
                  /\ results'[t] = << <<"send_webhook", "ok">> >>
                  /\ Len(PostsOfKind(t, "text")) = 1
                  /\ last_dm_user' = arg'[t].author
            /\ \A c \in Tasks :
                ( /\ ReplyWithoutMemberStarts(c) /\ ForwardingOrFailed(t)
                  /\ last_dm_user = arg[t].author )
                => sent'[c] = << [to |-> arg[t].author, content |-> arg'[c].message] >>
        /\ last_dm_user' # last_dm_user
           => \E u \in Tasks :
                /\ pc[u] = "await_text" /\ pc'[u] # "await_text"
                /\ results'[u] = << <<"send_webhook", "ok">> >>
                /\ last_dm_user' = arg[u].author
      ]_vars

\* C14 witness: while the attachment of alice's message (text and attachment)
\* is being forwarded, a reply without a member has been sent to alice.
C14_Witness ==
    \E t, c \in Tasks :
        /\ IsMessageTask(t) /\ pc[t] = "await_attachments"
        /\ arg[t].author = "alice" /\ arg[t].clean_content # ""
        /\ IsCommandTask(c) /\ pc[c] = "done" /\ arg[c].member = None
        /\ sent[c] = << [to |-> "alice", content |-> arg[c].message] >>


\* C15: last_dm_user is None or a human; every write of it is made by a handler
\* resuming from the text post of a human's direct message with non-empty
\* text, and stores that message's author; once set it is never None again.
C15_LastSenderIsRelayedHuman ==
    [][ /\ last_dm_user' \in HumanUsers \cup {None}
        /\ last_dm_user # None => last_dm_user' # None
        /\ last_dm_user' # last_dm_user
           => \E t \in Tasks :
                /\ pc[t] = "await_text" /\ pc'[t] # "await_text"
                /\ arg[t].kind = "message"
                /\ arg[t].author \notin BotUsers /\ arg[t].guild = None
                /\ arg[t].clean_content # ""
                /\ Len(PostsOfKind(t, "text")) = 1
                /\ posted[t][1].content = arg[t].clean_content
                /\ results'[t] = << <<"send_webhook", "ok">> >>
                /\ last_dm_user' = arg[t].author
      ]_vars

\* C15 witness: bob is the recorded sender and the handler of his message is
\* past its text post, waiting for the placeholder post to return.
C15_Witness ==
    /\ last_dm_user = "bob"
    /\ \E t \in Tasks :
        /\ IsMessageTask(t) /\ pc[t] = "await_placeholder"
        /\ arg[t].author = "bob" /\ arg[t].clean_content # ""


\* C16: the webhook is written once at most, by the init task resuming from a
\* successful fetch, from absent to the fetched object; no handler or command
\* step writes it, and every post and every forwarding of a handler goes to
\* that one object.
C16_WebhookWrittenOnceByInit ==
    [][ /\ webhook' # webhook
           => /\ webhook = NoWebhook /\ webhook' = WebhookObj
              /\ initPc = "fetching" /\ initPc' = "done"
              /\ pc' = pc /\ arg' = arg
        /\ \A t \in Tasks :
            /\ \A i \in DOMAIN posted'[t] :
                posted'[t][i].webhook = WebhookObj /\ posted'[t][i].webhook = webhook'
            /\ \A i \in DOMAIN forwards'[t] :
                forwards'[t][i] = WebhookObj /\ forwards'[t][i] = webhook'
      ]_vars

\* C16 witness: a handler has issued a text post, a forwarding and a
\* placeholder post across three awaits, all to the fetched webhook.
C16_Witness ==
    \E t \in Tasks :
        /\ IsMessageTask(t) /\ pc[t] = "done"
        /\ Len(posted[t]) = 2 /\ Len(forwards[t]) = 1
        /\ posted[t][1].kind = "text" /\ posted[t][2].kind = "placeholder"
        /\ posted[t][1].webhook = WebhookObj /\ posted[t][2].webhook = WebhookObj
        /\ forwards[t][1] = WebhookObj

\* C17: no step of send_dm (rejected, explicit member, recorded sender, no
\* target; start, resumption or end) issues a webhook post or writes
\* last_dm_user or the webhook: a reply to a named member does not make that
\* member the recorded sender.
C17_SendDmWritesNoRelayState ==
    [][\A t \in Tasks :
        (pc'[t] # pc[t] /\ (arg[t].kind = "command" \/ arg'[t].kind = "command"))
        => /\ posted' = posted /\ forwards' = forwards
           /\ last_dm_user' = last_dm_user
           /\ webhook' = webhook
      ]_vars

\* C17 witness: a reply to bob by name has been delivered and marked, alice is
\* still the recorded sender, and a reply without a member is on its way to
\* alice.
C17_Witness ==
    \E t, c \in Tasks :
        /\ IsCommandTask(t) /\ pc[t] = "done" /\ arg[t].member = "bob"
        /\ sent[t] # <<>> /\ reactions[t] = <<CheckMark>>
        /\ last_dm_user = "alice"
        /\ IsCommandTask(c) /\ pc[c] = "await_send" /\ arg[c].member = None
        /\ sent[c][1].to = "alice"


\* a human's direct message starts being handled in slot t while the webhook
\* is held
QualifyingStarts(t) ==
    /\ pc[t] = "idle" /\ pc'[t] # "idle" /\ arg'[t].kind = "message"
    /\ arg'[t].author \notin BotUsers /\ arg'[t].guild = None
    /\ webhook # NoWebhook

\* C18: a relayed message gets a text post iff its text is non-empty and a
\* forwarding iff its attachment list is non-empty; a placeholder post is
\* issued only by the handler resuming from a forwarding that raised Forbidden
\* or NotFound; with no text and no attachment nothing is posted; no handler
\* issues two text posts, two forwardings or two placeholder posts.
C18_PostsMatchMessageParts ==
    [][\A t \in Tasks :
        /\ QualifyingStarts(t)
           => /\ Len(PostsOfKind(t, "text")') = (IF arg'[t].clean_content # "" THEN 1 ELSE 0)
              /\ arg'[t].clean_content # "" => (pc'[t] = "await_text" /\ forwards'[t] = <<>>)
              /\ arg'[t].clean_content = ""
                 => Len(forwards'[t]) = (IF arg'[t].attachments # <<>> THEN 1 ELSE 0)
              /\ (arg'[t].clean_content = "" /\ arg'[t].attachments = <<>>)
                 => (pc'[t] = "done" /\ posted'[t] = <<>>)
        /\ (pc[t] = "await_text" /\ pc'[t] # "await_text")
           => /\ Len(forwards'[t]) = (IF arg[t].attachments # <<>> THEN 1 ELSE 0)
              /\ pc'[t] = (IF arg[t].attachments # <<>> THEN "await_attachments" ELSE "done")
              /\ posted'[t] = posted[t]
        /\ (pc'[t] # "idle" /\ PostsOfKind(t, "placeholder")' # PostsOfKind(t, "placeholder"))
           => /\ pc[t] = "await_attachments"
              /\ results'[t][Len(results'[t])][1] = "send_attachments"
              /\ results'[t][Len(results'[t])][2] \in {"Forbidden", "NotFound"}
        /\ (pc[t] = "done" /\ pc'[t] = "done")
           => (posted'[t] = posted[t] /\ forwards'[t] = forwards[t])
        /\ arg'[t].kind = "message"
           => /\ Len(PostsOfKind(t, "text")') <= 1
              /\ Len(PostsOfKind(t, "placeholder")') <= 1
              /\ Len(forwards'[t]) <= 1
              /\ PostsOfKind(t, "text")' # <<>> => arg'[t].clean_content # ""
              /\ forwards'[t] # <<>> => arg'[t].attachments # <<>>
      ]_vars

\* C18 witness: a message with an attachment and no text was relayed, the
\* forwarding raised Forbidden: one forwarding, one placeholder post, no text
\* post.
C18_Witness ==
    \E t \in Tasks :
        /\ IsMessageTask(t) /\ pc[t] = "done"
        /\ arg[t].clean_content = "" /\ arg[t].attachments # <<>>
        /\ results[t] # <<>> /\ results[t][1] = <<"send_attachments", "Forbidden">>
        /\ Len(forwards[t]) = 1
        /\ Len(posted[t]) = 1 /\ posted[t][1].kind = "placeholder"

====
